---- MODULE Spec2Model ----
(***************************************************************************)
(* Autofocus control subsystem of the microscope dashboard:                *)
(*   app.py                              autofocus_sweep, arduino_send,    *)
(*                                       arduino_console, gen_frames, index*)
(*   3step_snapshot_dataset_collector.py confirm_move,                     *)
(*                                       get_position_from_response        *)
(* Text is modelled structurally: a reply is a sequence of lines, a line   *)
(* is a record [tag, ok, n] (the marker text it contains, whether the text *)
(* after the marker is a decimal integer, and that integer); a command is  *)
(* a record [op, arg] (the letter and the formatted integer).              *)
(* A frame is a 1 x 3 grey image <<a, b, c>>.                              *)
(***************************************************************************)
EXTENDS Integers, Sequences, FiniteSets, TLC

VARIABLES
    device,           \* behaviour class of the attached devices (fixed per run)
    objective,        \* autofocus_sweep argument
    step_size,        \* autofocus_sweep argument
    sw_pc,            \* position of the autofocus_sweep call
    sw_wait,          \* the sweep has written a command and sleeps
    ser,              \* the sweep's serial.Serial handle
    homing_i,         \* iterations of the homing wait loop done so far
    homed,
    sw_resp,          \* resp of autofocus_sweep: the reply to its last query
    max_steps,
    cap,              \* the sweep's cv2.VideoCapture(CAM_INDEX) handle
    frame_positions,
    pos,
    video,            \* frames written to sweep.mp4, in order
    idx,
    best_idx,
    best_score,
    scores,
    delta,
    sw_result,        \* what the call handed to its caller
    earlier_run,      \* frames and scores of a scoring run made before
    line,             \* every command written to /dev/serial0, in order
    con_pc,           \* position of the arduino_console request
    con_wait,         \* the request has written its command and sleeps
    con_body,         \* request.get_json() of the console request
    con_cmd,          \* the cmd of the console request
    con_ser,          \* the console request's serial handle
    con_output,
    console_log,
    gen_pc,           \* position of the gen_frames generator
    gen_cap,          \* its capture handle
    det_pc,           \* position of the single-frame detection in index
    det_cap,          \* its capture handle
    cm_pc,            \* position of the confirm_move call
    cm_timeout,       \* confirm_move argument, in seconds
    cm_prev,          \* confirm_move argument prev_position
    last_position,
    cm_elapsed,       \* time.time() - start, in half seconds
    cm_polls,         \* status queries written by confirm_move
    cm_wait,          \* confirm_move has written a query and sleeps
    cm_resp,          \* resp of confirm_move: the reply to its last query
    cm_pos,           \* pos of confirm_move
    cm_result,
    cm_warned,
    channel,          \* the synthetic status channel confirm_move talks to
    live_detection_enabled,
    ix_pc,            \* position of the autofocus POST in index
    tg_pc,            \* position of the toggle_detection POST in index
    gen_detecting,    \* whether gen_frames ran the detector on its last frame
    form,             \* request.form of the autofocus POST
    sc_pc,            \* position of the collector script
    sc_move,          \* which of its three moves the script is at
    sc_wait,          \* the script has written a command and sleeps
    init_position,
    pos_plus,
    pos_minus

sweepVars   == <<objective, step_size, sw_pc, sw_wait, ser, homing_i, homed,
                 sw_resp, max_steps,
                 cap, frame_positions, pos, video, idx, best_idx, best_score,
                 scores, delta, sw_result, earlier_run>>
consoleVars == <<con_pc, con_wait, con_body, con_cmd, con_ser, con_output,
                 console_log>>
cameraVars  == <<gen_pc, gen_cap, det_pc, det_cap>>
confirmVars == <<cm_pc, cm_timeout, cm_prev, last_position, cm_elapsed,
                 cm_polls, cm_wait, cm_resp, cm_pos, cm_result, cm_warned,
                 channel>>
serverVars  == <<live_detection_enabled, ix_pc, tg_pc, gen_detecting, form>>
scriptVars  == <<sc_pc, sc_move, sc_wait, init_position, pos_plus,
                 pos_minus>>
vars == <<device, sweepVars, line, consoleVars, cameraVars, confirmVars,
          serverVars, scriptVars>>

(***************************************************************************)
(* Bounds of the model                                                     *)
(***************************************************************************)
MaxFrames == 3        \* frames the camera delivers before a read fails
MaxStale  == 17       \* longest run of unchanged status replies scripted
MaxPollTicks == 2     \* longest poll cycle of confirm_move, in half seconds

(***************************************************************************)
(* Program constants                                                       *)
(***************************************************************************)
CAM_INDEX == 0
sweep_speed == 12
HomingPolls == 60
DefaultMaxSteps == 9000
DefaultTimeout == 8
None == -1            \* Python's None; every parsed position is >= 0
STEP_SIZES == [coarse |-> 500, medium |-> 250, fine |-> 100]
OBJECTIVES == {4, 10, 40}

(***************************************************************************)
(* Text                                                                    *)
(***************************************************************************)
Line(t, k, v) == [tag |-> t, ok |-> k, n |-> v]
Cmd(o, a) == [op |-> o, arg |-> a]
Sent(who, c) == [by |-> who, op |-> c.op, arg |-> c.arg]

\* str.lower() on the marker texts a line can carry
Lower(t) == IF t = "HOMED" THEN "homed"
            ELSE IF t = "Homing complete." THEN "homing complete."
            ELSE t

\* line 49 without .lower()
HomingMarker_case_sensitive(resp) ==
    \/ \E i \in 1..Len(resp) : resp[i].tag = "Homing complete."
    \/ \E i \in 1..Len(resp) : resp[i].tag = "homed"

\* 'Homing complete.' in resp or 'homed' in resp.lower()
HomingMarker(resp) ==
    \/ \E i \in 1..Len(resp) : resp[i].tag = "Homing complete."
    \/ \E i \in 1..Len(resp) : Lower(resp[i].tag) = "homed"

RECURSIVE ParseMaxLimitFrom(_, _, _)
ParseMaxLimitFrom(resp, i, acc) ==
    IF i > Len(resp) THEN acc
    ELSE IF resp[i].tag = "Max limit:" /\ resp[i].ok
         THEN ParseMaxLimitFrom(resp, i + 1, resp[i].n)
         ELSE ParseMaxLimitFrom(resp, i + 1, acc)

\* line 54 forgotten: nothing is assigned when no line parses
ParseMaxLimit_no_default(resp) == ParseMaxLimitFrom(resp, 1, None)

\* max_steps = 9000; for line in resp.splitlines(): ... int(...) ... pass
ParseMaxLimit(resp) == ParseMaxLimitFrom(resp, 1, DefaultMaxSteps)

(***************************************************************************)
(* Focus measure                                                           *)
(***************************************************************************)
Frames == {<<0, 0, 0>>, <<0, 3, 3>>, <<3, 0, 6>>, <<6, 3, 0>>}

\* Sobel, ksize 3, on one row with reflected borders: the vertical
\* derivative vanishes, the horizontal one is 4 * (p[x+1] - p[x-1]).
Px(gray, x) == IF x < 1 THEN gray[2]
               ELSE IF x > Len(gray) THEN gray[Len(gray) - 1]
               ELSE gray[x]
SobelX(gray, x) == 4 * (Px(gray, x + 1) - Px(gray, x - 1))
RECURSIVE SumG2(_, _)
SumG2(gray, x) == IF x > Len(gray) THEN 0
                  ELSE SobelX(gray, x) * SobelX(gray, x) + SumG2(gray, x + 1)
tenengrad_focus_measure(gray) == SumG2(gray, 1) \div Len(gray)

(***************************************************************************)
(* Device behaviour                                                        *)
(***************************************************************************)
NoReply == << >>
\* status replies without and with a homing-complete phrase
QuietReplies ==
    { NoReply,
      <<Line("noise", FALSE, 0)>>,
      <<Line("Position:", TRUE, 0)>> }
MarkerReplies ==
    { <<Line("Homing complete.", FALSE, 0)>>,
      <<Line("Position:", TRUE, 0), Line("HOMED", FALSE, 0)>>,
      <<Line("homed", FALSE, 0)>> }
StatusReplies == QuietReplies \cup MarkerReplies

LimitReplies ==
    { NoReply,
      <<Line("Max limit:", FALSE, 0)>>,
      <<Line("Position:", TRUE, 0), Line("Max limit:", TRUE, 0)>>,
      <<Line("Max limit:", TRUE, 600)>>,
      <<Line("Max limit:", TRUE, 250), Line("Max limit:", TRUE, 1000)>>,
      <<Line("Max limit:", TRUE, 1000), Line("Max limit:", FALSE, 0)>>,
      <<Line("Max limit:", TRUE, 0 - 5)>> }

\* the poll of the homing wait on which the controller first reports the
\* marker (0: it never does)
HomingAt == {0, 1, 2, HomingPolls}

Devices == [homing_at : HomingAt, frames : {Frames}, limits : {LimitReplies}]

\* the devices of the concurrent runs: prompt homing, two kinds of frame
HandlerDevices ==
    [homing_at : {1},
     frames : {{<<0, 0, 0>>, <<6, 3, 0>>}},
     limits : {{NoReply, <<Line("Max limit:", TRUE, 250)>>}}]

\* the device of the server runs: prompt homing, one kind of frame, a
\* travel limit of one medium step
ServerDevices ==
    [homing_at : {1},
     frames : {{<<6, 3, 0>>}},
     limits : {{<<Line("Max limit:", TRUE, 250)>>}}]

(***************************************************************************)
(* autofocus_sweep                                                         *)
(***************************************************************************)
Unknown == 0 - 2      \* the '?' of best_step
NoResult == [kind |-> "none", error |-> "", frames |-> 0, best_idx |-> 0,
             best_score |-> 0, best_step |-> 0]
Raised(e) == [kind |-> "raised", error |-> e, frames |-> 0, best_idx |-> 0,
              best_score |-> 0, best_step |-> 0]
ErrorResult(e) == [kind |-> "error", error |-> e, frames |-> 0, best_idx |-> 0,
                   best_score |-> 0, best_step |-> 0]

\* seq[i] of Python, for an index that is in range
PyIndex(seq, i) == IF i >= 0 THEN seq[i + 1] ELSE seq[Len(seq) + i + 1]

\* ser.write(...) of arduino_send: the command reaches the line
arduino_send(who, c) == line' = Append(line, Sent(who, c))

SweepCommands == SelectSeq(line, LAMBDA m : m.by = "sweep")

\* line 39: ser = serial.Serial(SERIAL_PORT, 9600, timeout=2)
SweepOpenSerial ==
    /\ sw_pc = "call"
    /\ \/ /\ ser' = "open"
          /\ sw_pc' = "O"
          /\ UNCHANGED sw_result
       \/ /\ sw_result' = Raised("SerialException")
          /\ sw_pc' = "raised"
          /\ UNCHANGED ser
    /\ UNCHANGED <<device, serverVars, scriptVars, sw_wait, objective,
                   step_size, sw_resp, homing_i, homed, max_steps, cap,
                   frame_positions, pos, video, idx, best_idx, best_score,
                   scores, delta, earlier_run, line, consoleVars, cameraVars,
                   confirmVars>>

\* lines 41-43 with the home command sent before the speed
SweepConfigure_home_first ==
    /\ sw_pc \in {"O", "V", "Z"}
    /\ arduino_send("sweep", CASE sw_pc = "O" -> Cmd("O", objective)
                               [] sw_pc = "V" -> Cmd("Z", 0)
                               [] sw_pc = "Z" -> Cmd("V", sweep_speed))
    /\ sw_pc' = CASE sw_pc = "O" -> "V"
                  [] sw_pc = "V" -> "Z"
                  [] sw_pc = "Z" -> "homing"
    /\ UNCHANGED <<device, serverVars, scriptVars, sw_wait, objective,
                   step_size, sw_resp, ser, homing_i, homed, max_steps, cap,
                   frame_positions, pos, video, idx, best_idx, best_score,
                   scores, delta, sw_result, earlier_run, consoleVars,
                   cameraVars, confirmVars>>

\* lines 41-43: O<objective>, V<sweep_speed>, Z
SweepConfigure ==
    /\ sw_pc \in {"O", "V", "Z"}
    /\ arduino_send("sweep", CASE sw_pc = "O" -> Cmd("O", objective)
                               [] sw_pc = "V" -> Cmd("V", sweep_speed)
                               [] sw_pc = "Z" -> Cmd("Z", 0))
    /\ sw_pc' = CASE sw_pc = "O" -> "V"
                  [] sw_pc = "V" -> "Z"
                  [] sw_pc = "Z" -> "homing"
    /\ UNCHANGED <<device, serverVars, scriptVars, sw_wait, objective,
                   step_size, sw_resp, ser, homing_i, homed, max_steps, cap,
                   frame_positions, pos, video, idx, best_idx, best_score,
                   scores, delta, sw_result, earlier_run, consoleVars,
                   cameraVars, confirmVars>>

\* ser.write raising inside arduino_send, at any command before the camera
\* is opened (lines 41-53): nothing catches it
SweepWriteFails ==
    /\ sw_pc \in {"O", "V", "Z", "homing"}
    /\ ~sw_wait
    /\ sw_result' = Raised("SerialException")
    /\ sw_pc' = "raised"
    /\ UNCHANGED <<device, serverVars, scriptVars, sw_wait, objective,
                   step_size, sw_resp, ser, homing_i, homed, max_steps, cap,
                   frame_positions, pos, video, idx, best_idx, best_score,
                   scores, delta, earlier_run, line, consoleVars, cameraVars,
                   confirmVars>>

\* the homing wait of lines 46-51 is not over
HomingWait == sw_pc = "homing" /\ homing_i < HomingPolls /\ ~homed

\* lines 46-47 and 24-25: an iteration of the homing wait writes Q and
\* sleeps inside arduino_send
SweepHomingPoll ==
    /\ HomingWait
    /\ ~sw_wait
    /\ arduino_send("sweep", Cmd("Q", 0))
    /\ sw_wait' = TRUE
    /\ UNCHANGED <<device, serverVars, scriptVars, objective, step_size,
                   sw_pc, ser, homing_i, homed, sw_resp, max_steps, cap,
                   frame_positions, pos, video, idx, best_idx, best_score,
                   scores, delta, sw_result, earlier_run, consoleVars,
                   cameraVars, confirmVars>>

\* lines 26-34 and 47-51: after the sleep the reply is read and tested
SweepHomingReply ==
    /\ HomingWait
    /\ sw_wait
    /\ homing_i' = homing_i + 1
    /\ \E r \in StatusReplies :
          /\ (r \in MarkerReplies) <=> (device.homing_at = homing_i + 1)
          /\ sw_resp' = r
          /\ homed' = HomingMarker(r)
    /\ sw_wait' = FALSE
    /\ UNCHANGED <<device, serverVars, scriptVars, objective, step_size,
                   sw_pc, ser, max_steps, cap, frame_positions, pos, video,
                   idx, best_idx, best_score, scores, delta, sw_result,
                   earlier_run, line, consoleVars, cameraVars, confirmVars>>

\* the homing wait has ended, by break or after 60 polls
HomingOver == sw_pc = "homing" /\ (homed \/ homing_i = HomingPolls)

\* lines 53 and 24-25: the travel-limit query is written, and the sleep
\* inside arduino_send
SweepQueryLimit ==
    /\ HomingOver
    /\ ~sw_wait
    /\ arduino_send("sweep", Cmd("Q", 0))
    /\ sw_wait' = TRUE
    /\ UNCHANGED <<device, serverVars, scriptVars, objective, step_size,
                   sw_pc, ser, homing_i, homed, sw_resp, max_steps, cap,
                   frame_positions, pos, video, idx, best_idx, best_score,
                   scores, delta, sw_result, earlier_run, consoleVars,
                   cameraVars, confirmVars>>

\* lines 26-34 and 53-60: after the sleep the reply is read and parsed
SweepLimitReply ==
    /\ HomingOver
    /\ sw_wait
    /\ \E r \in device.limits :
          /\ sw_resp' = r
          /\ max_steps' = ParseMaxLimit(r)
    /\ sw_pc' = "camera"
    /\ sw_wait' = FALSE
    /\ UNCHANGED <<device, serverVars, scriptVars, objective, step_size, ser,
                   homing_i, homed, cap, frame_positions, pos, video, idx,
                   best_idx, best_score, scores, delta, sw_result,
                   earlier_run, line, consoleVars, cameraVars, confirmVars>>

\* cv2.VideoCapture(CAM_INDEX): the driver decides whether the handle opens
CameraOpenOutcomes == {"open", "unopened"}

\* line 66 forgotten: the connection stays open
SerialAfterCameraFailure_leaked == "open"

\* line 66: ser.close()
SerialAfterCameraFailure == "closed"

\* lines 61-73
SweepOpenCamera ==
    /\ sw_pc = "camera"
    /\ \E c \in CameraOpenOutcomes :
          IF c = "open"
          THEN /\ cap' = "open"
               /\ frame_positions' = << >>
               /\ pos' = 0
               /\ sw_pc' = "capture"
               /\ UNCHANGED <<ser, sw_result>>
          ELSE /\ ser' = SerialAfterCameraFailure
               /\ cap' = "released"
               /\ sw_result' = ErrorResult("Could not open camera")
               /\ sw_pc' = "returned"
               /\ UNCHANGED <<frame_positions, pos>>
    /\ UNCHANGED <<device, serverVars, scriptVars, sw_wait, objective,
                   step_size, sw_resp, homing_i, homed, max_steps, video, idx,
                   best_idx, best_score, scores, delta, earlier_run, line,
                   consoleVars, cameraVars, confirmVars>>

\* line 74 letting the loop run one step past the limit
LoopCondition_one_more == pos - step_size <= max_steps

\* line 74: while pos <= max_steps
LoopCondition == pos <= max_steps

\* line 80 testing the current position instead of the next one
StepAllowed_current == pos <= max_steps

\* line 80: if pos + step_size <= max_steps
StepAllowed == pos + step_size <= max_steps

\* lines 74-83: one iteration of the capture loop with a successful read.
\* When a step is due G<step_size> is written and the sweep sleeps (lines
\* 25 and 82) before it advances pos; a raising ser.write leaves through
\* the finally (cap.release()). Without a step pos advances at once.
SweepCaptureFrame ==
    /\ sw_pc = "capture"
    /\ ~sw_wait
    /\ LoopCondition
    /\ Len(video) < MaxFrames
    /\ \E frame \in device.frames : video' = Append(video, frame)
    /\ frame_positions' = Append(frame_positions, pos)
    /\ IF StepAllowed
       THEN \/ /\ arduino_send("sweep", Cmd("G", step_size))
               /\ sw_wait' = TRUE
               /\ UNCHANGED <<pos, sw_pc, cap, sw_result>>
            \/ /\ cap' = "released"
               /\ sw_result' = Raised("SerialException")
               /\ sw_pc' = "raised"
               /\ UNCHANGED <<pos, line, sw_wait>>
       ELSE /\ pos' = pos + step_size
            /\ UNCHANGED <<sw_pc, cap, sw_result, line, sw_wait>>
    /\ UNCHANGED <<device, serverVars, scriptVars, objective, step_size,
                   sw_resp, ser, homing_i, homed, max_steps, idx, best_idx,
                   best_score, scores, delta, earlier_run, consoleVars,
                   cameraVars, confirmVars>>

\* line 83 after the sleeps of a step: pos += step_size
SweepAdvance ==
    /\ sw_pc = "capture"
    /\ sw_wait
    /\ pos' = pos + step_size
    /\ sw_wait' = FALSE
    /\ UNCHANGED <<device, serverVars, scriptVars, objective, step_size,
                   sw_pc, sw_resp, ser, homing_i, homed, max_steps, cap,
                   frame_positions, video, idx, best_idx, best_score, scores,
                   delta, sw_result, earlier_run, line, consoleVars,
                   cameraVars, confirmVars>>

\* lines 84-91: writer.release(), cap.release(), the scorer's initial state
EndCapture ==
    /\ cap' = "released"
    /\ best_idx' = 0 - 1
    /\ best_score' = 0 - 1
    /\ idx' = 0
    /\ scores' = << >>
    /\ sw_pc' = "score"
    /\ UNCHANGED <<device, serverVars, scriptVars, sw_wait, objective,
                   step_size, sw_resp, ser, homing_i, homed, max_steps,
                   frame_positions, pos, video, delta, sw_result, earlier_run,
                   line, consoleVars, cameraVars, confirmVars>>

\* line 74: the loop condition pos <= max_steps fails
SweepLoopExit ==
    /\ sw_pc = "capture"
    /\ ~sw_wait
    /\ ~LoopCondition
    /\ EndCapture

\* lines 76-79 with the position recorded before ret is tested
SweepReadFails_records ==
    /\ sw_pc = "capture"
    /\ ~sw_wait
    /\ LoopCondition
    /\ frame_positions' = Append(frame_positions, pos)
    /\ cap' = "released"
    /\ best_idx' = 0 - 1
    /\ best_score' = 0 - 1
    /\ idx' = 0
    /\ scores' = << >>
    /\ sw_pc' = "score"
    /\ UNCHANGED <<device, serverVars, scriptVars, sw_wait, objective,
                   step_size, sw_resp, ser, homing_i, homed, max_steps, pos,
                   video, delta, sw_result, earlier_run, line, consoleVars,
                   cameraVars, confirmVars>>

\* lines 75-77: cap.read() returns ret = False, break
SweepReadFails ==
    /\ sw_pc = "capture"
    /\ ~sw_wait
    /\ LoopCondition
    /\ EndCapture

\* lines 97-98 with a score that carries over from the frames before
Score_running(frame) ==
    tenengrad_focus_measure(frame) + (IF best_score > 0 THEN best_score ELSE 0)

\* lines 97-98: the grey image of the frame, scored
Score(frame) == tenengrad_focus_measure(frame)

\* line 100 with >= in place of >
Better_or_equal(score, best) == score >= best

\* line 100: if score > best_score
Better(score, best) == score > best

\* lines 93-103: one iteration of the scoring loop over sweep.mp4
SweepScoreFrame ==
    /\ sw_pc = "score"
    /\ idx < Len(video)
    /\ LET frame == video[idx + 1]
           score == Score(frame)
       IN  /\ scores' = Append(scores, score)
           /\ IF Better(score, best_score)
              THEN /\ best_score' = score
                   /\ best_idx' = idx
              ELSE UNCHANGED <<best_score, best_idx>>
    /\ idx' = idx + 1
    /\ UNCHANGED <<device, serverVars, scriptVars, sw_wait, objective,
                   step_size, sw_resp, sw_pc, ser, homing_i, homed, max_steps,
                   cap, frame_positions, pos, video, delta, sw_result,
                   earlier_run, line, consoleVars, cameraVars, confirmVars>>

\* no scoring run made before
NoRun == [video |-> << >>, scores |-> << >>]

\* the frames of an artifact in every order
Orders(frames) ==
    {[i \in 1..Len(frames) |-> frames[p[i]]] :
        p \in Permutations(1..Len(frames))}

\* lines 88-92 once more: the scoring loop starts again on the same frames
\* in another order, and what the run before gave each frame is kept
ScoreReordered ==
    /\ sw_pc = "correct"
    /\ earlier_run = NoRun
    /\ \E frames \in Orders(video) \ {video} : video' = frames
    /\ earlier_run' = [video |-> video, scores |-> scores]
    /\ best_idx' = 0 - 1
    /\ best_score' = 0 - 1
    /\ idx' = 0
    /\ scores' = << >>
    /\ sw_pc' = "score"
    /\ UNCHANGED <<device, serverVars, scriptVars, sw_wait, objective,
                   step_size, sw_resp, ser, homing_i, homed, max_steps, cap,
                   frame_positions, pos, delta, sw_result, line, consoleVars,
                   cameraVars, confirmVars>>

\* lines 94-96 and 104: the read past the last frame fails, break
SweepScoreEnd ==
    /\ sw_pc = "score"
    /\ ~(idx < Len(video))
    /\ sw_pc' = "correct"
    /\ UNCHANGED <<device, serverVars, scriptVars, sw_wait, objective,
                   step_size, sw_resp, ser, homing_i, homed, max_steps, cap,
                   frame_positions, pos, video, idx, best_idx, best_score,
                   scores, delta, sw_result, earlier_run, line, consoleVars,
                   cameraVars, confirmVars>>

\* line 105
target_pos == IF best_idx < Len(frame_positions)
              THEN PyIndex(frame_positions, best_idx)
              ELSE 0

\* line 106 measuring from the loop variable pos instead
Delta_from_pos == target_pos - pos

\* line 106; frame_positions[-1] needs a non-empty list
Delta == target_pos - PyIndex(frame_positions, 0 - 1)

\* lines 105-107: the corrective move
SweepCorrect ==
    /\ sw_pc = "correct"
    /\ IF Len(frame_positions) = 0
       THEN /\ sw_result' = Raised("IndexError")
            /\ sw_pc' = "raised"
            /\ UNCHANGED <<delta, line>>
       ELSE /\ delta' = Delta
            /\ \/ /\ arduino_send("sweep", Cmd("G", Delta))
                  /\ sw_pc' = "close"
                  /\ UNCHANGED sw_result
               \/ /\ sw_result' = Raised("SerialException")
                  /\ sw_pc' = "raised"
                  /\ UNCHANGED line
    /\ UNCHANGED <<device, serverVars, scriptVars, sw_wait, objective,
                   step_size, sw_resp, ser, homing_i, homed, max_steps, cap,
                   frame_positions, pos, video, idx, best_idx, best_score,
                   scores, earlier_run, consoleVars, cameraVars, confirmVars>>

\* line 113 reading the last recorded position
BestStep_last == PyIndex(frame_positions, 0 - 1)

\* line 113: 'best_step'
BestStep == IF best_idx < Len(frame_positions)
            THEN PyIndex(frame_positions, best_idx)
            ELSE Unknown

\* lines 108-116: ser.close() and the result
SweepReturn ==
    /\ sw_pc = "close"
    /\ ser' = "closed"
    /\ sw_result' = [kind |-> "success", error |-> "",
                     frames |-> Len(frame_positions),
                     best_idx |-> best_idx,
                     best_score |-> best_score,
                     best_step |-> BestStep]
    /\ sw_pc' = "returned"
    /\ UNCHANGED <<device, serverVars, scriptVars, sw_wait, objective,
                   step_size, sw_resp, homing_i, homed, max_steps, cap,
                   frame_positions, pos, video, idx, best_idx, best_score,
                   scores, delta, earlier_run, line, consoleVars, cameraVars,
                   confirmVars>>

autofocus_sweep ==
    \/ SweepOpenSerial
    \/ SweepConfigure
    \/ SweepWriteFails
    \/ SweepHomingPoll
    \/ SweepHomingReply
    \/ SweepQueryLimit
    \/ SweepLimitReply
    \/ SweepOpenCamera
    \/ SweepCaptureFrame
    \/ SweepAdvance
    \/ SweepLoopExit
    \/ SweepReadFails
    \/ SweepScoreFrame
    \/ SweepScoreEnd
    \/ SweepCorrect
    \/ SweepReturn

(***************************************************************************)
(* arduino_console                                                         *)
(***************************************************************************)
ConsoleCmds == {Cmd("R", 0), Cmd("G", 100)}
ConsoleReplies == {NoReply, <<Line("Position:", TRUE, 100)>>}
Output(e, t) == [err |-> e, text |-> t]
LogLimit == 100

\* the JSON body of the request: an object, with the cmd it holds if any,
\* or a value that is no object (null, a list, a string, a number)
JsonObject(cmds) == [object |-> TRUE, cmd |-> cmds]
NotAnObject == [object |-> FALSE, cmd |-> {}]

\* the bodies posted to /arduino_console
HandlerBodies == {JsonObject({c}) : c \in ConsoleCmds} \cup {NotAnObject}
ServerBodies == {JsonObject({Cmd("R", 0)}), JsonObject({}), NotAnObject}

\* line 400: data.get('cmd', '')
GetCmd(data) == IF data.cmd = {} THEN Cmd("", 0)
                ELSE CHOOSE c \in data.cmd : TRUE

\* lines 399-400, before the try: cmd is taken from the body; on a body
\* that is no object data.get raises AttributeError and the request ends
\* there, with no port opened and nothing logged
ConsoleGetCmd ==
    /\ con_pc = "call"
    /\ IF con_body.object
       THEN /\ con_cmd' = GetCmd(con_body)
            /\ con_pc' = "open"
       ELSE /\ con_pc' = "raised"
            /\ UNCHANGED con_cmd
    /\ UNCHANGED <<device, serverVars, scriptVars, sweepVars, line, con_wait,
                   con_body, con_ser, con_output, console_log, cameraVars,
                   confirmVars>>

\* lines 401-403: serial.Serial(...) inside the try; a failure to open is
\* caught at lines 406-407
ConsoleOpenSerial ==
    /\ con_pc = "open"
    /\ \/ /\ con_ser' = "open"
          /\ con_pc' = "send"
          /\ UNCHANGED con_output
       \/ /\ con_output' = Output(TRUE, NoReply)
          /\ con_pc' = "log"
          /\ UNCHANGED con_ser
    /\ UNCHANGED <<device, serverVars, scriptVars, sweepVars, line, con_wait,
                   con_cmd, console_log, con_body, cameraVars, confirmVars>>

\* lines 404 and 24-25: arduino_send writes the command and sleeps, or the
\* write raises and the except of lines 406-407 makes the output
ConsoleSend ==
    /\ con_pc = "send"
    /\ ~con_wait
    /\ \/ /\ arduino_send("console", con_cmd)
          /\ con_wait' = TRUE
          /\ UNCHANGED <<con_pc, con_output>>
       \/ /\ con_output' = Output(TRUE, NoReply)
          /\ con_pc' = "log"
          /\ UNCHANGED <<line, con_wait>>
    /\ UNCHANGED <<device, serverVars, scriptVars, sweepVars, con_cmd,
                   con_ser, console_log, con_body, cameraVars, confirmVars>>

\* lines 26-34 and 404-405: after the sleep the reply is read, output is
\* assigned and the port is closed
ConsoleReply ==
    /\ con_pc = "send"
    /\ con_wait
    /\ \E resp \in ConsoleReplies : con_output' = Output(FALSE, resp)
    /\ con_ser' = "closed"
    /\ con_wait' = FALSE
    /\ con_pc' = "log"
    /\ UNCHANGED <<device, serverVars, scriptVars, sweepVars, line, con_cmd,
                   console_log, con_body, cameraVars, confirmVars>>

\* console_log.pop() in place of pop(0): the newest entry goes
Discard_newest(log) == SubSeq(log, 1, Len(log) - 1)

\* lines 141 and 412: console_log.pop(0)
Discard(log) == Tail(log)

\* lines 140 and 411: len(console_log) > 100
OverLimit == Len(console_log) > LogLimit

\* line 409: console_log.append({'cmd': cmd, 'output': output})
ConsoleLog ==
    /\ con_pc = "log"
    /\ console_log' = Append(console_log,
                             [cmd |-> con_cmd, output |-> con_output])
    /\ con_pc' = "trim"
    /\ UNCHANGED <<device, serverVars, scriptVars, sweepVars, line, con_wait,
                   con_cmd, con_ser, con_output, con_body, cameraVars,
                   confirmVars>>

\* lines 411 and 413: the test of the size limit; under the limit the
\* request returns
ConsoleTrim ==
    /\ con_pc = "trim"
    /\ con_pc' = IF OverLimit THEN "pop" ELSE "returned"
    /\ UNCHANGED <<device, serverVars, scriptVars, sweepVars, line, con_wait,
                   con_cmd, con_ser, con_output, console_log, con_body,
                   cameraVars, confirmVars>>

\* lines 412-413: console_log.pop(0), and the request returns
ConsolePop ==
    /\ con_pc = "pop"
    /\ console_log' = Discard(console_log)
    /\ con_pc' = "returned"
    /\ UNCHANGED <<device, serverVars, scriptVars, sweepVars, line, con_wait,
                   con_cmd, con_ser, con_output, con_body, cameraVars,
                   confirmVars>>

arduino_console ==
    \/ ConsoleGetCmd
    \/ ConsoleOpenSerial
    \/ ConsoleSend
    \/ ConsoleReply
    \/ ConsoleLog
    \/ ConsoleTrim
    \/ ConsolePop

(***************************************************************************)
(* gen_frames and the single-frame detection of index                      *)
(***************************************************************************)
\* line 422
GenOpen ==
    /\ gen_pc = "call"
    /\ \E c \in CameraOpenOutcomes : gen_cap' = c
    /\ gen_pc' = "stream"
    /\ UNCHANGED <<device, serverVars, scriptVars, sweepVars, line,
                   consoleVars, det_pc, det_cap, confirmVars>>

\* lines 426-456: after any number of frames read and yielded the read
\* fails or the client goes away, and the finally releases the handle
GenRelease ==
    /\ gen_pc = "stream"
    /\ gen_cap' = "released"
    /\ gen_pc' = "returned"
    /\ UNCHANGED <<device, serverVars, scriptVars, sweepVars, line,
                   consoleVars, det_pc, det_cap, confirmVars>>

\* lines 427-432 and 452-454: one frame of the stream; the detector runs
\* on it when the shared flag is set at that moment
GenFrame ==
    /\ gen_pc = "stream"
    /\ gen_cap = "open"
    /\ gen_detecting' = live_detection_enabled
    /\ UNCHANGED <<device, live_detection_enabled, ix_pc, tg_pc, form,
                   scriptVars, sweepVars, line, consoleVars, cameraVars,
                   confirmVars>>

gen_frames == GenOpen \/ GenFrame \/ GenRelease

\* line 146
DetectOpen ==
    /\ det_pc = "call"
    /\ \E c \in CameraOpenOutcomes : det_cap' = c
    /\ det_pc' = "read"
    /\ UNCHANGED <<device, serverVars, scriptVars, sweepVars, line,
                   consoleVars, gen_pc, gen_cap, confirmVars>>

\* lines 147-148
DetectRead ==
    /\ det_pc = "read"
    /\ det_cap' = "released"
    /\ det_pc' = "returned"
    /\ UNCHANGED <<device, serverVars, scriptVars, sweepVars, line,
                   consoleVars, gen_pc, gen_cap, confirmVars>>

index_detection == DetectOpen \/ DetectRead

(***************************************************************************)
(* index: the autofocus POST and the toggle_detection POST                 *)
(***************************************************************************)
\* a form field that should be a number: whether its text is a decimal
\* integer, and that integer
Number(n) == [ok |-> TRUE, n |-> n]
NotANumber == [ok |-> FALSE, n |-> 0]

\* the forms posted: mode 'turbo' is no key of STEP_SIZES, objective 'abc'
\* is no integer
Forms == [mode : {"medium", "turbo"}, objective : {Number(40), NotANumber}]
HandlerForms == [mode : {"medium"}, objective : {Number(40), NotANumber}]

\* line 134: STEP_SIZES.get(mode, 250)
StepSizeOf(mode) == IF mode \in DOMAIN STEP_SIZES THEN STEP_SIZES[mode]
                    ELSE 250

\* line 139: the entry the autofocus request logs
AutofocusEntry ==
    [cmd |-> [op |-> "AUTOFOCUS", arg |-> objective, mode |-> form.mode],
     output |-> Output(FALSE, <<sw_result>>)]

\* lines 127-128: live_detection_enabled = not live_detection_enabled
IndexToggle ==
    /\ tg_pc = "call"
    /\ live_detection_enabled' = ~live_detection_enabled
    /\ tg_pc' = "done"
    /\ UNCHANGED <<device, ix_pc, gen_detecting, form, scriptVars, sweepVars,
                   line, consoleVars, cameraVars, confirmVars>>

\* lines 129-135: the flag is cleared and autofocus_sweep is called with
\* the objective and the step size of the form
IndexPause ==
    /\ ix_pc = "post"
    /\ form.objective.ok
    /\ sw_pc = "off"
    /\ live_detection_enabled' = FALSE
    /\ objective' = form.objective.n
    /\ step_size' = StepSizeOf(form.mode)
    /\ sw_pc' = "call"
    /\ ix_pc' = "sweep"
    /\ UNCHANGED <<device, tg_pc, gen_detecting, form, scriptVars, sw_wait,
                   ser, homing_i, homed, sw_resp, max_steps, cap,
                   frame_positions, pos, video, idx, best_idx, best_score,
                   scores, delta, sw_result, earlier_run, line, consoleVars,
                   cameraVars, confirmVars>>

\* lines 129-133: the flag is cleared and int(...) raises ValueError on an
\* objective that is no integer; the handler ends there
IndexFormRaises ==
    /\ ix_pc = "post"
    /\ ~form.objective.ok
    /\ live_detection_enabled' = FALSE
    /\ ix_pc' = "raised"
    /\ UNCHANGED <<device, tg_pc, gen_detecting, form, scriptVars, sweepVars,
                   line, consoleVars, cameraVars, confirmVars>>

\* lines 135-137: autofocus_sweep has returned a result
IndexResume ==
    /\ ix_pc = "sweep"
    /\ sw_pc = "returned"
    /\ live_detection_enabled' = TRUE
    /\ ix_pc' = "log"
    /\ UNCHANGED <<device, tg_pc, gen_detecting, form, scriptVars, sweepVars,
                   line, consoleVars, cameraVars, confirmVars>>

\* line 135: an exception of autofocus_sweep leaves the handler at once
IndexRaised ==
    /\ ix_pc = "sweep"
    /\ sw_pc = "raised"
    /\ ix_pc' = "raised"
    /\ UNCHANGED <<device, live_detection_enabled, tg_pc, gen_detecting, form,
                   scriptVars, sweepVars, line, consoleVars, cameraVars,
                   confirmVars>>

\* line 139: console_log.append(...)
IndexLog ==
    /\ ix_pc = "log"
    /\ console_log' = Append(console_log, AutofocusEntry)
    /\ ix_pc' = "trim"
    /\ UNCHANGED <<device, live_detection_enabled, tg_pc, gen_detecting, form,
                   scriptVars, sweepVars, line, con_pc, con_wait, con_cmd,
                   con_ser, con_output, con_body, cameraVars, confirmVars>>

\* line 140: the test of the size limit; under the limit the page is
\* rendered
IndexTrim ==
    /\ ix_pc = "trim"
    /\ ix_pc' = IF OverLimit THEN "pop" ELSE "done"
    /\ UNCHANGED <<device, live_detection_enabled, tg_pc, gen_detecting, form,
                   scriptVars, sweepVars, line, consoleVars, cameraVars,
                   confirmVars>>

\* line 141: console_log.pop(0), and the page is rendered
IndexPop ==
    /\ ix_pc = "pop"
    /\ console_log' = Discard(console_log)
    /\ ix_pc' = "done"
    /\ UNCHANGED <<device, live_detection_enabled, tg_pc, gen_detecting, form,
                   scriptVars, sweepVars, line, con_pc, con_wait, con_cmd,
                   con_ser, con_output, con_body, cameraVars, confirmVars>>

index_autofocus ==
    \/ IndexPause
    \/ IndexFormRaises
    \/ IndexResume
    \/ IndexRaised
    \/ IndexLog
    \/ IndexTrim
    \/ IndexPop

(***************************************************************************)
(* confirm_move                                                            *)
(***************************************************************************)
RECURSIVE FirstPosition(_, _)
FirstPosition(resp, i) ==
    IF i > Len(resp) THEN None
    ELSE IF resp[i].tag = "Position:" /\ resp[i].ok THEN resp[i].n
    ELSE FirstPosition(resp, i + 1)

\* re.search(r'Position:\s*(\d+)', resp)
get_position_from_response(resp) == FirstPosition(resp, 1)

Timeouts == {1, DefaultTimeout}
\* the positions the synthetic channel reports
Synthetic == [base |-> 100, moved |-> 150]
Base == Synthetic.base
Moved == Synthetic.moved
Position(n) == <<Line("Position:", TRUE, n)>>
FreeReplies ==
    { NoReply,
      <<Line("noise", FALSE, 0)>>,
      <<Line("Position:", FALSE, 0)>>,
      Position(Base),
      Position(Moved),
      <<Line("Position:", TRUE, Base), Line("Position:", TRUE, Moved)>>,
      <<Line("noise", FALSE, 0), Line("Position:", TRUE, Moved)>> }

Channels ==
    [mode : {"stale_then_new"}, stale : 0..MaxStale]
      \cup [mode : {"never_changes", "silent", "free"}, stale : {0}]

\* the reply the channel gives to the i-th status query
ChannelReplies(ch, i) ==
    CASE ch.mode = "stale_then_new" ->
             {Position(IF i <= ch.stale THEN Base ELSE Moved)}
      [] ch.mode = "never_changes" -> {Position(Base)}
      [] ch.mode = "silent" -> {NoReply}
      [] ch.mode = "free" -> FreeReplies

\* line 55 without the test that a last position is known
Changed_from_none(last, p) == p # None /\ p # last

\* line 55 without the comparison against the last position
Changed_any(last, p) == last # None /\ p # None

\* line 55
Changed(last, p) == last # None /\ p # None /\ p # last

\* line 61 returning the argument instead of the tracked position
TimedOutValue_prev == cm_prev

\* line 61: return last_position
TimedOutValue == last_position

\* lines 41-42: the deadline has not passed and the status query is
\* written; the call then sleeps (line 43)
ConfirmPoll ==
    /\ cm_pc = "loop"
    /\ ~cm_wait
    /\ cm_elapsed < 2 * cm_timeout
    /\ arduino_send("confirm", Cmd("Q", 0))
    /\ cm_polls' = cm_polls + 1
    /\ cm_wait' = TRUE
    /\ UNCHANGED <<device, serverVars, scriptVars, sweepVars, consoleVars,
                   cameraVars, cm_pc, cm_timeout, cm_prev, last_position,
                   cm_elapsed, cm_resp, cm_pos, cm_result, cm_warned,
                   channel>>

\* lines 43-59: after the sleep the reply is read and compared with the
\* last known position
ConfirmReply ==
    /\ cm_pc = "loop"
    /\ cm_wait
    /\ cm_wait' = FALSE
    /\ \E d \in 1..MaxPollTicks : cm_elapsed' = cm_elapsed + d
    /\ \E resp \in ChannelReplies(channel, cm_polls) :
          LET p == get_position_from_response(resp)
          IN  /\ cm_resp' = resp
              /\ cm_pos' = IF resp # NoReply THEN p ELSE cm_pos
              /\ IF resp # NoReply /\ Changed(last_position, p)
                 THEN /\ cm_result' = p
                      /\ cm_pc' = "returned"
                      /\ UNCHANGED last_position
                 ELSE IF resp # NoReply /\ last_position = None /\ p # None
                 THEN /\ last_position' = p
                      /\ UNCHANGED <<cm_result, cm_pc>>
                 ELSE UNCHANGED <<last_position, cm_result, cm_pc>>
    /\ UNCHANGED <<device, serverVars, scriptVars, sweepVars, line,
                   consoleVars, cameraVars, cm_timeout, cm_prev, cm_polls,
                   cm_warned, channel>>

\* lines 41 and 60-61: the deadline has passed
ConfirmTimeout ==
    /\ cm_pc = "loop"
    /\ ~cm_wait
    /\ ~(cm_elapsed < 2 * cm_timeout)
    /\ cm_warned' = TRUE
    /\ cm_result' = TimedOutValue
    /\ cm_pc' = "returned"
    /\ UNCHANGED <<device, serverVars, scriptVars, sweepVars, line,
                   consoleVars, cameraVars, cm_timeout, cm_prev,
                   last_position, cm_elapsed, cm_polls, cm_wait, cm_resp,
                   cm_pos, channel>>

\* line 42: ser.write raises; nothing in confirm_move or in the script
\* catches it, so a script that made the call ends with it
ConfirmWriteFails ==
    /\ cm_pc = "loop"
    /\ ~cm_wait
    /\ cm_elapsed < 2 * cm_timeout
    /\ cm_pc' = "raised"
    /\ sc_pc' = IF sc_pc = "confirm" THEN "raised" ELSE sc_pc
    /\ UNCHANGED <<device, serverVars, sc_move, sc_wait, init_position,
                   pos_plus, pos_minus, sweepVars, line, consoleVars,
                   cameraVars, cm_timeout, cm_prev, last_position,
                   cm_elapsed, cm_polls, cm_wait, cm_resp, cm_pos, cm_result,
                   cm_warned, channel>>

confirm_move ==
    \/ ConfirmPoll
    \/ ConfirmReply
    \/ ConfirmTimeout
    \/ ConfirmWriteFails

(***************************************************************************)
(* 3step_snapshot_dataset_collector.py: the script body                    *)
(***************************************************************************)
STEP_SIZE == 50
\* lines 112-113, 119-120, 126-127: the three moves
Moves == << [dir |-> "U", n |-> STEP_SIZE],
            [dir |-> "D", n |-> STEP_SIZE * 2],
            [dir |-> "U", n |-> STEP_SIZE] >>
\* what the controller answers to the script's first status query
InitReplies == {NoReply, Position(Base)}
\* how the status channel behaves during one confirmation of the script
ScriptChannels ==
    [mode : {"stale_then_new"}, stale : {0, 1}]
      \cup [mode : {"never_changes", "silent"}, stale : {0}]

\* every confirmation given the initial position
PrevPosition_initial == init_position

\* lines 114, 121, 128: the prev_position argument
PrevPosition == CASE sc_move = 1 -> init_position
                  [] sc_move = 2 -> pos_plus
                  [] sc_move = 3 -> pos_minus

\* line 96: the first status query is written; the script then sleeps
\* (line 97)
ScriptQuery ==
    /\ sc_pc = "query"
    /\ ~sc_wait
    /\ arduino_send("script", Cmd("Q", 0))
    /\ sc_wait' = TRUE
    /\ UNCHANGED <<device, serverVars, sc_pc, sc_move, init_position,
                   pos_plus, pos_minus, sweepVars, consoleVars, cameraVars,
                   confirmVars>>

\* lines 97-108: after the sleep the reply is read and init_position is
\* taken from it; take_snapshot touches no state modelled here
ScriptQueryReply ==
    /\ sc_pc = "query"
    /\ sc_wait
    /\ \E resp \in InitReplies :
          init_position' = get_position_from_response(resp)
    /\ sc_pc' = "set"
    /\ sc_wait' = FALSE
    /\ UNCHANGED <<device, serverVars, sc_move, pos_plus, pos_minus,
                   sweepVars, line, consoleVars, cameraVars, confirmVars>>

\* lines 112, 119, 126 and 18: arduino_send(f'S{...}', ser) writes the
\* command and sleeps
ScriptSetStep ==
    /\ sc_pc = "set"
    /\ ~sc_wait
    /\ arduino_send("script", Cmd("S", Moves[sc_move].n))
    /\ sc_wait' = TRUE
    /\ UNCHANGED <<device, serverVars, sc_pc, sc_move, init_position,
                   pos_plus, pos_minus, sweepVars, consoleVars, cameraVars,
                   confirmVars>>

\* lines 19-28: after the sleep arduino_send reads the reply, which the
\* script discards
ScriptSetStepReply ==
    /\ sc_pc = "set"
    /\ sc_wait
    /\ sc_pc' = "execute"
    /\ sc_wait' = FALSE
    /\ UNCHANGED <<device, serverVars, sc_move, init_position, pos_plus,
                   pos_minus, sweepVars, line, consoleVars, cameraVars,
                   confirmVars>>

\* lines 113, 120, 127 and 18: arduino_send('U' or 'D', ser) writes the
\* command and sleeps
ScriptExecute ==
    /\ sc_pc = "execute"
    /\ ~sc_wait
    /\ arduino_send("script", Cmd(Moves[sc_move].dir, 0))
    /\ sc_wait' = TRUE
    /\ UNCHANGED <<device, serverVars, sc_pc, sc_move, init_position,
                   pos_plus, pos_minus, sweepVars, consoleVars, cameraVars,
                   confirmVars>>

\* lines 19-28, then 114, 121, 128: after the sleep the reply is read and
\* discarded, and confirm_move(ser, prev_position=...) is entered (lines
\* 39-40), its deadline starting now
ScriptCallConfirm ==
    /\ sc_pc = "execute"
    /\ sc_wait
    /\ sc_wait' = FALSE
    /\ cm_pc' = "loop"
    /\ cm_wait' = FALSE
    /\ cm_timeout' = DefaultTimeout
    /\ cm_prev' = PrevPosition
    /\ last_position' = PrevPosition
    /\ cm_elapsed' = 0 /\ cm_polls' = 0
    /\ cm_resp' = NoReply /\ cm_pos' = None /\ cm_warned' = FALSE
    /\ channel' \in ScriptChannels
    /\ sc_pc' = "confirm"
    /\ UNCHANGED <<device, serverVars, sc_move, init_position, pos_plus,
                   pos_minus, sweepVars, line, consoleVars, cameraVars,
                   cm_result>>

\* lines 114-115, 121-122, 128: confirm_move has returned
ScriptConfirmed ==
    /\ sc_pc = "confirm"
    /\ cm_pc = "returned"
    /\ pos_plus' = IF sc_move = 1 THEN cm_result ELSE pos_plus
    /\ pos_minus' = IF sc_move = 2 THEN cm_result ELSE pos_minus
    /\ IF sc_move < Len(Moves)
       THEN sc_move' = sc_move + 1 /\ sc_pc' = "set"
       ELSE sc_move' = sc_move /\ sc_pc' = "close"
    /\ UNCHANGED <<device, serverVars, sc_wait, init_position, sweepVars,
                   line, consoleVars, cameraVars, confirmVars>>

\* lines 130-133
ScriptClose ==
    /\ sc_pc = "close"
    /\ sc_pc' = "done"
    /\ UNCHANGED <<device, serverVars, sc_move, sc_wait, init_position,
                   pos_plus, pos_minus, sweepVars, line, consoleVars,
                   cameraVars, confirmVars>>

\* ser.write raising at lines 96, 112-113, 119-120, 126-127: the script
\* ends with a traceback
ScriptWriteFails ==
    /\ sc_pc \in {"query", "set", "execute"}
    /\ ~sc_wait
    /\ sc_pc' = "raised"
    /\ UNCHANGED <<device, serverVars, sc_move, sc_wait, init_position,
                   pos_plus, pos_minus, sweepVars, line, consoleVars,
                   cameraVars, confirmVars>>

collector_script ==
    \/ ScriptQuery
    \/ ScriptQueryReply
    \/ ScriptSetStep
    \/ ScriptSetStepReply
    \/ ScriptExecute
    \/ ScriptCallConfirm
    \/ ScriptConfirmed
    \/ ScriptClose
    \/ ScriptWriteFails

(***************************************************************************)
(* Specifications                                                          *)
(***************************************************************************)
SweepIdle ==
    /\ sw_wait = FALSE
    /\ ser = "none" /\ homing_i = 0 /\ homed = FALSE /\ sw_resp = NoReply
    /\ max_steps = 0
    /\ cap = "none" /\ frame_positions = << >> /\ pos = 0 /\ video = << >>
    /\ idx = 0 /\ best_idx = 0 /\ best_score = 0 /\ scores = << >>
    /\ delta = 0 /\ sw_result = NoResult
    /\ earlier_run = NoRun
ConsoleOff ==
    /\ con_pc = "off" /\ con_wait = FALSE
    /\ con_body = JsonObject({Cmd("Q", 0)})
    /\ con_cmd = Cmd("Q", 0) /\ con_ser = "none"
    /\ con_output = Output(FALSE, NoReply) /\ console_log = << >>
CameraOff ==
    /\ gen_pc = "off" /\ gen_cap = "none" /\ det_pc = "off" /\ det_cap = "none"
ConfirmOff ==
    /\ cm_pc = "off" /\ cm_timeout = 0 /\ cm_prev = None
    /\ last_position = None /\ cm_elapsed = 0 /\ cm_polls = 0
    /\ cm_wait = FALSE
    /\ cm_resp = NoReply /\ cm_pos = None
    /\ cm_result = None /\ cm_warned = FALSE
    /\ channel = [mode |-> "silent", stale |-> 0]

ServerOff ==
    /\ live_detection_enabled = FALSE /\ ix_pc = "off" /\ tg_pc = "off"
    /\ gen_detecting = FALSE
    /\ form = [mode |-> "medium", objective |-> Number(40)]
ScriptOff ==
    /\ sc_pc = "off" /\ sc_move = 1 /\ sc_wait = FALSE
    /\ init_position = None
    /\ pos_plus = None /\ pos_minus = None

StepSizeValues == {STEP_SIZES[m] : m \in DOMAIN STEP_SIZES}

\* one autofocus_sweep call, any device behaviour
Init ==
    /\ device \in Devices
    /\ objective \in OBJECTIVES
    /\ step_size \in StepSizeValues
    /\ sw_pc = "call"
    /\ SweepIdle
    /\ line = << >>
    /\ ConsoleOff /\ CameraOff /\ ConfirmOff /\ ServerOff /\ ScriptOff
Next == autofocus_sweep
Spec == Init /\ [][Next]_vars
\* the request thread keeps running: every blocking call of the sweep
\* (sleep, serial read with timeout, frame read) returns
FairSpec == Spec /\ WF_vars(Next)

\* the devices of the scoring runs: every kind of frame
ScoringDevices ==
    [homing_at : {1},
     frames : {Frames},
     limits : {{NoReply, <<Line("Max limit:", TRUE, 250)>>}}]

\* one sweep whose artifact is scored, and scored again in another order
InitScoring ==
    /\ device \in ScoringDevices
    /\ objective = 40 /\ step_size = STEP_SIZES.medium
    /\ sw_pc = "call"
    /\ SweepIdle
    /\ line = << >>
    /\ ConsoleOff /\ CameraOff /\ ConfirmOff /\ ServerOff /\ ScriptOff
NextScoring ==
    \/ autofocus_sweep
    \/ ScoreReordered
SpecScoring == InitScoring /\ [][NextScoring]_vars

\* one confirm_move call on a synthetic channel
InitConfirm ==
    /\ device \in HandlerDevices
    /\ objective = 40 /\ step_size = STEP_SIZES.medium
    /\ sw_pc = "off"
    /\ SweepIdle
    /\ line = << >>
    /\ ConsoleOff /\ CameraOff
    /\ cm_pc = "loop"
    /\ cm_timeout \in Timeouts
    /\ channel \in Channels
    /\ cm_prev \in IF channel.mode = "stale_then_new" THEN {Base}
                   ELSE {None, Base}
    /\ last_position = cm_prev
    /\ cm_elapsed = 0 /\ cm_polls = 0 /\ cm_wait = FALSE
    /\ cm_result = None
    /\ cm_resp = NoReply /\ cm_pos = None
    /\ cm_warned = FALSE
    /\ ServerOff /\ ScriptOff
NextConfirm == confirm_move
SpecConfirm == InitConfirm /\ [][NextConfirm]_vars
\* confirm_move is straight-line code in a running script: it keeps stepping
FairSpecConfirm == SpecConfirm /\ WF_vars(NextConfirm)

\* the log as n earlier console requests left it
EarlierLog(n) ==
    [i \in 1..n |-> [cmd |-> Cmd("G", i), output |-> Output(FALSE, NoReply)]]
EarlierLogs == {EarlierLog(n) : n \in {0, LogLimit - 1, LogLimit}}

\* a sweep with the other request handlers of the threaded server running,
\* on a log that earlier requests have filled
InitHandlers ==
    /\ device \in HandlerDevices
    /\ objective = None /\ step_size = None
    /\ sw_pc = "off"
    /\ SweepIdle
    /\ line = << >>
    /\ con_pc = "call" /\ con_wait = FALSE
    /\ con_body \in HandlerBodies
    /\ con_cmd = Cmd("", 0) /\ con_ser = "none"
    /\ con_output = Output(FALSE, NoReply)
    /\ console_log = EarlierLog(LogLimit)
    /\ gen_pc = "call" /\ gen_cap = "none"
    /\ det_pc = "call" /\ det_cap = "none"
    /\ ConfirmOff /\ ScriptOff
    /\ live_detection_enabled \in BOOLEAN
    /\ ix_pc = "post" /\ tg_pc = "off"
    /\ form \in HandlerForms
    /\ gen_detecting = FALSE
NextHandlers ==
    \/ index_autofocus
    \/ autofocus_sweep
    \/ arduino_console
    \/ gen_frames
    \/ index_detection
SpecHandlers == InitHandlers /\ [][NextHandlers]_vars

\* the threaded server with an autofocus POST, a toggle_detection POST, a
\* console request and the live stream in flight
InitServer ==
    /\ device \in ServerDevices
    /\ objective = None /\ step_size = None
    /\ sw_pc = "off"
    /\ SweepIdle
    /\ line = << >>
    /\ con_pc = "call" /\ con_wait = FALSE
    /\ con_body \in ServerBodies
    /\ con_cmd = Cmd("", 0) /\ con_ser = "none"
    /\ con_output = Output(FALSE, NoReply)
    /\ console_log \in EarlierLogs
    /\ gen_pc = "call" /\ gen_cap = "none" /\ gen_detecting = FALSE
    /\ det_pc = "off" /\ det_cap = "none"
    /\ ConfirmOff /\ ScriptOff
    /\ live_detection_enabled \in BOOLEAN
    /\ ix_pc = "post" /\ tg_pc = "call"
    /\ form \in Forms
NextServer ==
    \/ index_autofocus
    \/ autofocus_sweep
    \/ IndexToggle
    \/ arduino_console
    \/ gen_frames
SpecServer == InitServer /\ [][NextServer]_vars

\* one run of the collector script
InitScript ==
    /\ device \in ServerDevices
    /\ objective = 40 /\ step_size = STEP_SIZES.medium
    /\ sw_pc = "off"
    /\ SweepIdle
    /\ line = << >>
    /\ ConsoleOff /\ CameraOff /\ ConfirmOff /\ ServerOff
    /\ sc_pc = "query" /\ sc_move = 1 /\ sc_wait = FALSE
    /\ init_position = None
    /\ pos_plus = None /\ pos_minus = None
NextScript ==
    \/ collector_script
    \/ confirm_move
SpecScript == InitScript /\ [][NextScript]_vars

(***************************************************************************)
(* Properties                                                              *)
(***************************************************************************)
\* the sum of the G arguments among the sweep's commands line[i..]
RECURSIVE SumOfMoves(_)
SumOfMoves(i) ==
    IF i > Len(line) THEN 0
    ELSE (IF line[i].by = "sweep" /\ line[i].op = "G" THEN line[i].arg ELSE 0)
             + SumOfMoves(i + 1)

\* where the stage has been told to be: 0 at home plus every G argument
CommandedPosition == SumOfMoves(1)

NumberOfMoves == Cardinality({i \in 1..Len(line) :
                                  line[i].by = "sweep" /\ line[i].op = "G"})

\* the last element of a non-empty sequence
Last(seq) == seq[Len(seq)]

\* the 1-based index of the first maximum of a non-empty sequence
FirstArgMax(s) ==
    CHOOSE i \in 1..Len(s) :
        /\ \A j \in 1..Len(s) : s[j] <= s[i]
        /\ \A j \in 1..(i - 1) : s[j] < s[i]

\* the scores of the frames of sweep.mp4, each computed on its own
FrameScores == [i \in 1..Len(video) |-> tenengrad_focus_measure(video[i])]

Corrected ==
    sw_pc = "close" \/ (sw_pc = "returned" /\ sw_result.kind = "success")
Ended == sw_pc \in {"returned", "raised"}

\* C1: once the corrective G command of a sweep with at least one frame has
\* been issued, the commanded stage position (the sum of all G arguments) is
\* the recorded position of the frame with the maximum focus score.
C1_StageAtBestFrame ==
    (Corrected /\ Len(frame_positions) >= 1)
        => CommandedPosition = frame_positions[FirstArgMax(FrameScores)]

\* C2: a sweep whose capture loop produced zero frames ends with a failure
\* result and without a corrective G command.
C2_ZeroFramesFail ==
    (Ended /\ cap = "released" /\ Len(frame_positions) = 0)
        => /\ sw_result.kind = "error"
           /\ NumberOfMoves = 0

\* C3: at every point of the scoring loop, and when it has ended, best_idx is
\* the index of the maximum of the scores read so far, the smallest such
\* index when several frames share the maximum; best_score is that maximum.
C3_BestIsFirstArgMax ==
    (sw_pc \in {"score", "correct", "close"} /\ Len(scores) >= 1)
        => /\ scores = SubSeq(FrameScores, 1, idx)
           /\ best_idx = FirstArgMax(scores) - 1
           /\ best_score = scores[FirstArgMax(scores)]

\* a scored sweep in which the maximum is shared and is not the first frame
C3_Witness ==
    /\ sw_pc = "correct"
    /\ Len(scores) = 3
    /\ scores[1] < scores[2]
    /\ scores[2] = scores[3]
    /\ best_idx = 1

\* step commands of a capture loop that recorded these positions
StepsSent == Cardinality({i \in 1..Len(frame_positions) :
                              frame_positions[i] + step_size <= max_steps})

\* C4: after scoring, the sweep sends exactly one more command, G<delta>
\* with delta = recorded position of the best frame - last recorded position
\* of the sweep, and closes the serial connection with that command still
\* the last one it sent.
C4_OneCorrectiveMove ==
    Corrected
        => /\ Len(SweepCommands) >= 1
           /\ Last(SweepCommands) =
                  Sent("sweep",
                       Cmd("G", frame_positions[FirstArgMax(FrameScores)]
                                  - frame_positions[Len(frame_positions)]))
           /\ NumberOfMoves = StepsSent + 1
           /\ sw_pc = "returned" => ser = "closed"

\* a returned sweep whose corrective move stepped back
C4_Witness ==
    /\ sw_pc = "returned"
    /\ sw_result.kind = "success"
    /\ ser = "closed"
    /\ Len(frame_positions) = 3
    /\ pos > max_steps
    /\ delta < 0
    /\ Last(SweepCommands) = Sent("sweep", Cmd("G", delta))

\* C5: at every point of the capture loop (and after it) frame_positions is
\* non-decreasing and every element is <= max_steps.
C5_PositionsBounded ==
    /\ \A i \in 1..Len(frame_positions) : frame_positions[i] <= max_steps
    /\ \A i \in 1..Len(frame_positions) : \A j \in 1..Len(frame_positions) :
           i < j => frame_positions[i] <= frame_positions[j]

\* a capture loop that has recorded a frame exactly at the travel limit
C5_Witness ==
    /\ sw_pc = "capture"
    /\ Len(frame_positions) = 3
    /\ frame_positions[3] = max_steps
    /\ pos > max_steps

StaleChannel == channel.mode = "stale_then_new"

\* C6 as stated: for any number of stale polls, confirm_move returns the
\* moved position on the poll where it first appears.
C6_Original ==
    (StaleChannel /\ cm_pc = "returned")
        => /\ cm_result = Moved
           /\ cm_polls = channel.stale + 1

\* C6 amended: on the 100.., 150 channel with last-known 100, confirm_move
\* never returns Confirmed before the poll where 150 first appears, returns
\* 150 on that poll whenever that poll starts before the timeout has elapsed,
\* sends no query after it, and otherwise returns 100 (TimedOut) only once
\* the timeout has elapsed.
C6_ConfirmedOnFirstChange ==
    StaleChannel
        => /\ cm_polls <= channel.stale + 1
           /\ (cm_pc = "loop" /\ ~cm_wait) => cm_polls <= channel.stale
           /\ (cm_pc = "returned" /\ ~cm_warned)
                 => cm_result = Moved /\ cm_polls = channel.stale + 1
           /\ (cm_pc = "returned" /\ cm_warned)
                 => /\ cm_result = Base
                    /\ cm_polls <= channel.stale
                    /\ cm_elapsed >= 2 * cm_timeout

\* confirmed after several stale polls
C6_Witness ==
    /\ StaleChannel
    /\ channel.stale >= 3
    /\ cm_pc = "returned"
    /\ ~cm_warned
    /\ cm_result = Moved
    /\ cm_polls = channel.stale + 1

NeverChanges == channel.mode \in {"never_changes", "silent"}

\* C7: on a channel whose position never changes or that never replies,
\* confirm_move terminates (a write that raises ends it at once); it returns
\* only once the timeout has elapsed, with the warning and the last known
\* position, after at most one poll per half second of timeout.
C7_TimesOut ==
    /\ (NeverChanges /\ cm_pc = "loop") ~> (cm_pc \in {"returned", "raised"})
    /\ [](NeverChanges /\ cm_pc = "returned"
            => /\ cm_warned
               /\ cm_result = last_position
               /\ cm_elapsed >= 2 * cm_timeout
               /\ cm_polls <= 2 * cm_timeout)
    /\ [](NeverChanges /\ channel.mode = "never_changes"
            /\ cm_polls >= 1 + (IF cm_wait THEN 1 ELSE 0)
            => last_position = Base)

\* timed out after the full default timeout, having adopted a baseline
C7_Witness ==
    /\ channel.mode = "never_changes"
    /\ cm_prev = None
    /\ cm_timeout = DefaultTimeout
    /\ cm_pc = "returned"
    /\ cm_warned
    /\ cm_result = Base
    /\ cm_polls >= DefaultTimeout

SweepInProgress == sw_pc \notin {"off", "call", "returned", "raised"}

\* C8: while a sweep is in progress, every command written to the serial
\* line since the sweep's first command is a command of that sweep.
C8_NoInterleaving ==
    SweepInProgress
        => \A i \in 1..Len(line) : \A j \in 1..Len(line) :
               (i < j /\ line[i].by = "sweep") => line[j].by = "sweep"

\* C9: at most one of autofocus_sweep, gen_frames and the detection in index
\* holds an open capture handle on the camera.
C9_CameraExclusive ==
    Cardinality({h \in {<<"sweep", cap>>, <<"gen_frames", gen_cap>>,
                        <<"index", det_cap>>} : h[2] = "open"}) <= 1

\* C10: every exit of autofocus_sweep returns a result, success with data
\* or failure with a reason; none raises into the caller.
C10_NoRaise ==
    Ended => sw_result.kind \in {"success", "error"}

\* C11: when the camera cannot be opened, autofocus_sweep returns the
\* structured error at once, has sent no G command (neither a step nor the
\* corrective move), and has closed the serial connection and released the
\* camera handle.
C11_CameraFailureAborts ==
    /\ [][(sw_pc = "camera" /\ sw_pc' # "camera" /\ cap' # "open")
             => /\ sw_pc' = "returned"
                /\ sw_result' = ErrorResult("Could not open camera")
                /\ line' = line]_vars
    /\ [](sw_result.kind = "error"
            => /\ sw_pc = "returned"
               /\ NumberOfMoves = 0
               /\ video = << >>
               /\ ser = "closed"
               /\ cap = "released")

\* the sweep has ended on a camera that did not open, after a full homing wait
C11_Witness ==
    /\ sw_pc = "returned"
    /\ sw_result = ErrorResult("Could not open camera")
    /\ homing_i = HomingPolls
    /\ ser = "closed"
    /\ cap = "released"

LimitDetermined == sw_pc \in {"camera", "capture", "score", "correct", "close"}

ParseableLimits(r) == {i \in 1..Len(r) : r[i].tag = "Max limit:" /\ r[i].ok}
Min(S) == CHOOSE x \in S : \A y \in S : x <= y

\* C12: when the travel-limit reply has several parseable 'Max limit:'
\* lines, max_steps is the value of the first of them.
C12_FirstMaxLimitWins ==
    (LimitDetermined /\ ParseableLimits(sw_resp) # {})
        => max_steps = sw_resp[Min(ParseableLimits(sw_resp))].n

ParseablePositions(r) == {i \in 1..Len(r) : r[i].tag = "Position:" /\ r[i].ok}
Max(S) == CHOOSE x \in S : \A y \in S : x >= y

\* C13: the position confirm_move extracts from a reply is the value of the
\* last 'Position: <int>' match of that reply, and None when there is none.
C13_LastPositionWins ==
    (cm_polls >= 1 /\ cm_resp # NoReply)
        => cm_pos = IF ParseablePositions(cm_resp) = {} THEN None
                    ELSE cm_resp[Max(ParseablePositions(cm_resp))].n

\* C14: whatever the reply to the travel-limit query, max_steps is an
\* integer, 9000 when no 'Max limit:' line parses; the capture loop records
\* at most floor(max_steps / step_size) + 1 frames and terminates.
C14_LimitDefinedLoopBounded ==
    /\ [](LimitDetermined
            => /\ max_steps \in Int
               /\ ParseableLimits(sw_resp) = {} => max_steps = DefaultMaxSteps
               /\ Len(frame_positions) <= max_steps \div step_size + 1)
    /\ (sw_pc = "capture") ~> (sw_pc # "capture")

\* a capture loop that ran to its bound on a limit read from a reply with an
\* unparseable line
C14_Witness ==
    /\ sw_pc = "score"
    /\ Len(sw_resp) = 2
    /\ ~sw_resp[2].ok
    /\ pos > max_steps
    /\ Len(frame_positions) = 3
    /\ Len(frame_positions) = max_steps \div step_size + 1

NumberOfQueries == Cardinality({i \in 1..Len(line) :
                                    line[i].by = "sweep" /\ line[i].op = "Q"})

\* C15: the homing wait sends at most 60 status queries, stops at the first
\* reply that carries 'Homing complete.' or 'homed' in any case, and after
\* 60 polls without a marker goes on to the single travel-limit query and
\* the sweep.
C15_HomingWaitBounded ==
    /\ homing_i <= HomingPolls
    /\ HomingWait => NumberOfQueries <= HomingPolls
    /\ sw_pc = "homing"
           => NumberOfQueries = homing_i + (IF sw_wait THEN 1 ELSE 0)
    /\ LimitDetermined => NumberOfQueries = homing_i + 1
    /\ (sw_pc = "homing" /\ homing_i >= 1)
           => (homed <=> sw_resp \in MarkerReplies)
    /\ homed => homing_i = device.homing_at
    /\ (device.homing_at >= 1 /\ homing_i >= device.homing_at) => homed
    /\ (LimitDetermined /\ ~homed) => homing_i = HomingPolls

\* a sweep capturing frames after 60 polls without a marker
C15_Witness ==
    /\ sw_pc = "capture"
    /\ ~homed
    /\ homing_i = HomingPolls
    /\ NumberOfQueries = HomingPolls + 1
    /\ Len(frame_positions) >= 1

\* the capture loop was ended by a failed read after at least one frame
ReadFailedMidSweep ==
    /\ sw_pc \in {"score", "correct", "close", "returned", "raised"}
    /\ sw_result.kind # "error"
    /\ sw_pc = "raised" => Len(scores) >= 1
    /\ pos <= max_steps
    /\ Len(video) >= 1

\* C16: a failed frame read after k >= 1 frames ends the capture loop at
\* once (no further frame, no further step command); the k frames are
\* scored and the call returns success with frames = k and best_idx in
\* 0..k-1 (only a failing serial write of the corrective move prevents it).
C16_PartialSweepScored ==
    /\ [][(sw_pc = "capture" /\ LoopCondition /\ sw_pc' # "capture"
             /\ video' = video)
            => /\ sw_pc' = "score"
               /\ frame_positions' = frame_positions
               /\ line' = line]_vars
    /\ [][ReadFailedMidSweep
            => /\ frame_positions' = frame_positions
               /\ video' = video
               /\ sw_pc # "correct" => line' = line
               /\ sw_pc = "correct" => NumberOfMoves' <= NumberOfMoves + 1]_vars
    /\ [](ReadFailedMidSweep
            => /\ Len(frame_positions) = Len(video)
               /\ sw_pc \in {"correct", "close", "returned"}
                     => /\ Len(scores) = Len(video)
                        /\ best_idx \in 0..(Len(video) - 1)
               /\ sw_pc = "returned"
                     => /\ sw_result.kind = "success"
                        /\ sw_result.frames = Len(video)
                        /\ sw_result.best_idx \in 0..(Len(video) - 1)
               /\ sw_pc = "raised" => sw_result.error = "SerialException")

\* a sweep cut short after two frames that returned its best frame
C16_Witness ==
    /\ sw_pc = "returned"
    /\ pos <= max_steps
    /\ max_steps < DefaultMaxSteps
    /\ Len(video) = 2
    /\ sw_result.kind = "success"
    /\ sw_result.frames = 2
    /\ sw_result.best_idx = 1

\* the scoring loop has run over the same frames before, in another order
ScoredAgain == earlier_run # NoRun

InOrAfterCapture == sw_pc \in {"capture", "score", "correct"}
StepsOnly == \A i \in 1..Len(line) :
                 (line[i].by = "sweep" /\ line[i].op = "G")
                     => line[i].arg = step_size

\* C18 as stated: a step G<step_size> follows a recorded frame at pos iff
\* pos + step_size <= max_steps; the steps sent so far sum to at most
\* max_steps; a sweep that is not cut short sends frames - 1 steps.
C18_Original ==
    InOrAfterCapture
        => /\ StepsOnly
           /\ NumberOfMoves = StepsSent
           /\ CommandedPosition <= max_steps
           /\ pos > max_steps => NumberOfMoves = Len(frame_positions) - 1

\* C18 amended: the same, the two consequences for a travel limit >= 0 (a
\* negative limit admits no frame: no step is sent, the sum 0 exceeds the
\* limit and there are 0 steps for 0 frames).
C18_StepsWithinLimit ==
    InOrAfterCapture
        => /\ StepsOnly
           /\ NumberOfMoves = StepsSent
           /\ max_steps >= 0 => CommandedPosition <= max_steps
           /\ (max_steps >= 0 /\ pos > max_steps)
                 => NumberOfMoves = Len(frame_positions) - 1
           /\ max_steps < 0 => NumberOfMoves = 0 /\ Len(frame_positions) = 0

\* a full sweep whose last frame sits on the limit: three frames, two steps
C18_Witness ==
    /\ sw_pc = "score"
    /\ pos > max_steps
    /\ Len(frame_positions) = 3
    /\ NumberOfMoves = 2
    /\ CommandedPosition = max_steps
    /\ CommandedPosition = frame_positions[3]

\* the reply to a status query is read
Polled == cm_wait /\ ~cm_wait'
\* the position confirm_move obtained from the reply of the poll just made
Obtained == IF cm_resp' = NoReply THEN None ELSE cm_pos'

\* C19: on every poll of confirm_move: with no last-known position, an
\* obtained position becomes the last-known one and the call goes on; the
\* call returns on a poll only with an obtained position that differs from
\* a present last-known position, and returns that position; a poll with no
\* reply or no parseable position leaves last-known, result and control
\* unchanged.
C19_BaselineThenConfirm ==
    [][Polled
         => /\ (last_position = None /\ Obtained # None)
                  => /\ last_position' = Obtained
                     /\ cm_pc' = "loop"
            /\ cm_pc' = "returned"
                  => /\ Obtained # None
                     /\ last_position # None
                     /\ Obtained # last_position
                     /\ cm_result' = Obtained
                     /\ ~cm_warned'
            /\ (last_position # None /\ Obtained # None
                  /\ Obtained # last_position) => cm_pc' = "returned"
            /\ Obtained = None
                  => /\ last_position' = last_position
                     /\ cm_result' = cm_result
                     /\ cm_pc' = cm_pc]_vars

\* no last-known position at the start, a baseline adopted on a later poll
\* after an empty reply, then confirmed against that baseline
C19_Witness ==
    /\ cm_prev = None
    /\ channel.mode = "free"
    /\ cm_pc = "returned"
    /\ ~cm_warned
    /\ last_position = Base
    /\ cm_result = Moved
    /\ cm_polls >= 3

HomingEnded == homed \/ homing_i = HomingPolls

\* C20: the commands of a sweep are, in order, O<objective>, V<speed>, Z,
\* the homing queries Q, one travel-limit query Q, the steps G<step_size>
\* and last the corrective G<delta>; no G is sent before the homing wait has
\* ended and no frame is captured before the travel-limit query.
C20_CommandOrder ==
    \A c \in {SweepCommands} : \A n \in {Len(c)} : \A q \in {4 + homing_i} :
        /\ n >= 1 => c[1] = Sent("sweep", Cmd("O", objective))
        /\ n >= 2 => c[2] = Sent("sweep", Cmd("V", sweep_speed))
        /\ n >= 3 => c[3] = Sent("sweep", Cmd("Z", 0))
        /\ sw_pc = "homing" => n = 3 + homing_i + (IF sw_wait THEN 1 ELSE 0)
        /\ \A i \in 4..n :
              /\ i <= q => c[i] = Sent("sweep", Cmd("Q", 0))
              /\ i > q => c[i].op = "G"
              /\ (i > q /\ ~(i = n /\ Corrected)) => c[i].arg = step_size
        /\ Corrected => n > q /\ c[n] = Sent("sweep", Cmd("G", delta))
        /\ NumberOfMoves >= 1 => HomingEnded /\ n > q
        /\ Len(video) >= 1 => HomingEnded /\ n >= q

\* a returned sweep: O, V, Z, two homing polls, the limit query, two steps
\* and the corrective move
C20_Witness ==
    /\ sw_pc = "returned"
    /\ sw_result.kind = "success"
    /\ homing_i = 2
    /\ Len(frame_positions) = 3
    /\ pos > max_steps
    /\ Len(SweepCommands) = 9
    /\ delta # step_size

\* the autofocus POST has called autofocus_sweep, which has not come back
HandlerInSweep == ix_pc = "sweep" /\ sw_pc \notin {"returned", "raised"}
\* the autofocus POST is past its call of autofocus_sweep
HandlerPastSweep == ix_pc \in {"log", "trim", "done"}

\* C21: from the moment the index handler starts a sweep until the sweep
\* returns live_detection_enabled is False, whatever a concurrent
\* toggle_detection request does, and it is True once the handler has
\* finished the sweep.
C21_DetectionPaused ==
    /\ HandlerInSweep => live_detection_enabled = FALSE
    /\ HandlerPastSweep => live_detection_enabled = TRUE

\* requests that have appended their entry and not yet applied the limit
PendingTrims == Cardinality({h \in {<<"console", con_pc>>, <<"index", ix_pc>>} :
                                h[2] \in {"trim", "pop"}})

\* every change of the log puts one entry at its end or drops its first
LogStep ==
    \/ console_log' = console_log
    \/ /\ Len(console_log') = Len(console_log) + 1
       /\ SubSeq(console_log', 1, Len(console_log)) = console_log
    \/ console_log' = Tail(console_log)

\* C22: once the requests that appended have completed console_log holds at
\* most 100 entries (at most one more per request that has appended and not
\* yet applied the limit), and the log only ever changes by an append at its
\* end or by dropping its oldest entry, so it is always the most recent
\* entries in append order.
C22_LogBounded ==
    /\ [](Len(console_log) <= LogLimit + PendingTrims)
    /\ [][LogStep]_vars

\* both requests completed on a full log: the two oldest entries are gone and
\* the two new ones are at the end
C22_Witness ==
    /\ con_pc = "returned" /\ ix_pc = "done"
    /\ Len(console_log) = LogLimit
    /\ console_log[1].cmd = Cmd("G", 3)
    /\ {console_log[LogLimit - 1].cmd.op, console_log[LogLimit].cmd.op}
           = {"AUTOFOCUS", con_cmd.op}

\* the arduino_console request appends its entry: its command and its
\* output go to the end of the log as it is then
ConsoleAppends ==
    /\ con_pc' = "trim"
    /\ console_log' = Append(console_log,
                             [cmd |-> con_cmd, output |-> con_output])

\* C23: an arduino_console request appends exactly one entry (its command
\* and its output) to console_log, after the exchange and before it returns,
\* it never raises (a failure to open the port or to exchange the command
\* has become an error output), and when it has returned the serial
\* connection it opened is closed.
C23_ConsoleLogsAndCloses ==
    /\ [][(con_pc = "log" /\ con_pc' # "log") => ConsoleAppends]_vars
    /\ [][(con_pc # "trim" /\ con_pc' = "trim") => con_pc = "log"]_vars
    /\ [][(con_pc # "returned" /\ con_pc' = "returned")
              => con_pc \in {"trim", "pop"}]_vars
    /\ [](con_pc # "raised")
    /\ [](con_pc = "returned" => con_ser # "open")

\* a success result whose scoring loop read back as many frames as there
\* are recorded positions
SuccessResult ==
    /\ sw_pc = "returned"
    /\ sw_result.kind = "success"
    /\ idx = Len(frame_positions)

\* C24: in a success result, the frames read back being as many as the
\* recorded positions, 'frames' is the number of recorded positions,
\* 0 <= 'best_idx' < 'frames', and 'best_step' is the recorded position at
\* index 'best_idx', the position the corrective move was aimed at.
C24_ResultConsistent ==
    SuccessResult
        => /\ sw_result.frames = Len(frame_positions)
           /\ sw_result.best_idx = best_idx
           /\ 0 <= sw_result.best_idx
           /\ sw_result.best_idx < sw_result.frames
           /\ sw_result.best_step = frame_positions[sw_result.best_idx + 1]
           /\ sw_result.best_step = target_pos
           /\ delta = sw_result.best_step - Last(frame_positions)
           /\ Last(SweepCommands) = Sent("sweep", Cmd("G", delta))

\* three frames with the sharpest in the middle
C24_Witness ==
    /\ SuccessResult
    /\ sw_result.frames = 3
    /\ sw_result.best_idx = 1
    /\ sw_result.best_step = step_size
    /\ delta = 0 - step_size

\* the number of execute commands among line[1..i]
RECURSIVE ExecutedUpTo(_)
ExecutedUpTo(i) ==
    IF i = 0 THEN 0
    ELSE (IF line[i].op \in {"U", "D"} THEN 1 ELSE 0) + ExecutedUpTo(i - 1)

\* the signed sum of the moves executed among line[1..i]: an execute
\* command moves by the magnitude last set
RECURSIVE NetTravel(_)
NetTravel(i) ==
    IF i = 0 THEN 0
    ELSE (CASE line[i].op = "U" -> line[i - 1].arg
            [] line[i].op = "D" -> 0 - line[i - 1].arg
            [] OTHER -> 0) + NetTravel(i - 1)

\* every U or D directly follows the S<n> of the move it executes
SetThenExecute ==
    \A i \in 1..Len(line) :
        line[i].op \in {"U", "D"}
            => /\ i > 1
               /\ line[i - 1] =
                      Sent("script", Cmd("S", Moves[ExecutedUpTo(i)].n))
               /\ line[i].op = Moves[ExecutedUpTo(i)].dir

\* the script enters confirm_move
CallsConfirm == sc_pc = "execute" /\ sc_pc' = "confirm"

\* C25: in the collector script every U or D is immediately preceded on the
\* serial line by the S<n> setting its magnitude, the moves are +50, -100,
\* +50 and sum to zero when the script is done, and each confirm_move is
\* given the position the previous confirmation returned (the first one the
\* position of the initial query) as its last-known position.
C25_SetExecuteConfirm ==
    /\ [](SetThenExecute)
    /\ [](sc_pc \in {"close", "done"}
            => ExecutedUpTo(Len(line)) = 3 /\ NetTravel(Len(line)) = 0)
    /\ [][CallsConfirm
            => /\ cm_prev' = IF sc_move = 1 THEN init_position ELSE cm_result
               /\ last_position' = cm_prev']_vars

\* a finished script whose three confirmations each saw the position change
C25_Witness ==
    /\ sc_pc = "done"
    /\ init_position = Base
    /\ pos_plus = Moved
    /\ pos_minus = Base
    /\ cm_prev = pos_minus
    /\ cm_result = Moved
    /\ ~cm_warned
====
